---------------------------- MODULE Spec2Model ----------------------------
(***************************************************************************)
(* A model of Scripts/ucd_to_harness.py, the UCD -> Harness NG converter.  *)
(*                                                                         *)
(* Strings are sequences of one-character strings, so that the regular     *)
(* expressions and the str methods of the script can be modelled by what   *)
(* they do to the characters.  Three specifications share the module:      *)
(*   SpecSan   the two sanitizers applied to a drawn input string,         *)
(*   SpecTags  the tag parser, the classifier and the registry matcher     *)
(*             applied to drawn tag lists and a drawn rule,                *)
(*   Spec      main(): the batch driver, its documents and its files.      *)
(***************************************************************************)
EXTENDS Integers, Sequences, FiniteSets, TLC

VARIABLES
    \* ---- SpecSan: one call of each sanitizer
    san_in,         \* the argument s
    san_id,         \* the result of sanitize_identifier(s), once called
    san_nm,         \* the result of sanitize_name(s), once called
    san_done,       \* which of the two calls have returned
    \* ---- SpecTags: one component's tags through the parser, the
    \* classifier and the matcher
    tg_app,         \* the application's tag objects
    tg_comp,        \* the component's tag objects
    tg_registry,    \* the rules load_registry returned
    tg_first,       \* --first-match
    tg_pairs,       \* _parse_tag of each component tag
    tg_map,         \* {**app_tags_map, **comp_tags_map}
    tg_type,        \* the result of infer_deployment_type
    tg_matched,     \* the result of match_stepgroups_for_component
    tg_done,        \* which of the calls have returned
    \* ---- Spec: main()
    d_group_by,     \* --group-by
    d_first_match,  \* --first-match
    d_reg_file,     \* the file at --registry, until load_registry has read it
    d_nfiles,       \* len(files), the result of collect_input_files
    pc,             \* where main is: start, files, apps, comps, done, exit, crashed
    exit_code,      \* the exit code of the process, -1 while it runs
    m_registry,       \* the rules load_registry returned
    idx,            \* the input files the loop is through with
    parsed,         \* per input file so far, whether load_ucd_json returned
    m_root,           \* the base root services_dir and pipelines_dir lie under
    app_i,          \* the applications of the file the loop is through with
    m_app_name,       \* m_app_name
    m_app_tags,       \* the application's tag objects
    comps,          \* the components of the application processed so far
    m_stages,         \* stages
    counts,         \* svc_count, file_apps, file_svcs, grand_apps, grand_svcs
    fs,             \* the files written: path -> document
    writers,        \* history: service path -> the (application, component)
                    \* pairs whose document was written there
    app_writes      \* history: the writes made for the current application

sanVars == <<san_in, san_id, san_nm, san_done>>

tagVars == <<tg_app, tg_comp, tg_registry, tg_first, tg_pairs, tg_map, tg_type,
             tg_matched, tg_done>>

mainVars == <<d_group_by, d_first_match, d_reg_file, d_nfiles, pc, exit_code,
              m_registry, idx, parsed, m_root, app_i, m_app_name, m_app_tags, comps,
              m_stages, counts, fs, writers, app_writes>>

vars == <<sanVars, tagVars, mainVars>>

-----------------------------------------------------------------------------
(* Bounds of the model.                                                    *)

\* Longest freely drawn string (every string over SanAlphabet up to it).
MaxShort == 3
\* Long inputs are drawn with MaxLen-Slack .. MaxLen+Slack filler characters.
Slack == 1

\* Longest drawn list of component tags.
MaxTags == 2

\* Most input files, applications and components of a run.
MaxFiles == 2
MaxApps == 2
MaxServices == 2

\* The length limit of identifiers and names: s[:128].
MaxLen == 128

-----------------------------------------------------------------------------
(* Characters.                                                             *)

Letter ==
    {"a","b","c","d","e","f","g","h","i","j","k","l","m","n","o","p","q","r",
     "s","t","u","v","w","x","y","z","A","B","C","D","E","F","G","H","I","J",
     "K","L","M","N","O","P","Q","R","S","T","U","V","W","X","Y","Z"}

Digit == {"0","1","2","3","4","5","6","7","8","9"}

\* \s of the regular expressions and the characters str.strip() removes.
Space == {" ", "\t", "\n"}

\* [0-9A-Za-z_]: the complement of ID_SAN's class.
IdChar == Letter \cup Digit \cup {"_"}

\* [A-Za-z_]: the first character of an identifier.
IdStart == Letter \cup {"_"}

\* [0-9A-Za-z_\-\s.]: what sanitize_name keeps; also the tail class of NM_RE.
NameChar == Letter \cup Digit \cup {"_", "-", "."} \cup Space

\* [A-Za-z_0-9-.]: the first character of a name.
NameStart == Letter \cup Digit \cup {"_", "-", "."}

-----------------------------------------------------------------------------
(* String helpers: what the str methods and re.sub calls of the script do. *)

Str_id   == <<"i", "d">>
Str_Name == <<"N", "a", "m", "e">>

\* A mark no character equals: a position re.sub leaves out of its result.
Drop == "<drop>"

NotDrop(c) == c # Drop

\* Take with the cut one character late: s[:n+1].
TakeOneMore(s, n) == SubSeq(s, 1, IF Len(s) < n + 1 THEN Len(s) ELSE n + 1)

\* s[:n]
Take(s, n) == SubSeq(s, 1, IF Len(s) < n THEN Len(s) ELSE n)

\* s.lstrip(chars)
LStrip(s, chars) ==
    LET keep == {i \in 1..Len(s) : s[i] \notin chars}
    IN  IF keep = {} THEN <<>>
        ELSE SubSeq(s, CHOOSE i \in keep : \A j \in keep : i <= j, Len(s))

\* s.strip(chars)
Strip(s, chars) ==
    LET keep == {i \in 1..Len(s) : s[i] \notin chars}
    IN  IF keep = {} THEN <<>>
        ELSE SubSeq(s, CHOOSE i \in keep : \A j \in keep : i <= j,
                       CHOOSE i \in keep : \A j \in keep : i >= j)

\* SubRuns with the replacement lost: re.sub("[class]+", "", s).
SubRunsDeleted(s, class, r) ==
    SelectSeq([i \in 1..Len(s) |-> IF s[i] \notin class THEN s[i] ELSE Drop],
              NotDrop)

\* re.sub("[class]+", r, s): every maximal run of class characters becomes r.
SubRuns(s, class, r) ==
    SelectSeq([i \in 1..Len(s) |->
                  IF s[i] \notin class THEN s[i]
                  ELSE IF i > 1 /\ s[i-1] \in class THEN Drop
                  ELSE r],
              NotDrop)

\* re.sub("[^class]+", r, s)
SubRunsNot(s, class, r) ==
    SelectSeq([i \in 1..Len(s) |->
                  IF s[i] \in class THEN s[i]
                  ELSE IF i > 1 /\ s[i-1] \notin class THEN Drop
                  ELSE r],
              NotDrop)

\* re.sub("[^class]", r, s) and s.replace(c, r): character by character.
SubEachNot(s, class, r) == [i \in 1..Len(s) |-> IF s[i] \in class THEN s[i] ELSE r]

SubEach(s, class, r) == [i \in 1..Len(s) |-> IF s[i] \in class THEN r ELSE s[i]]

\* Python's $ also matches before one trailing newline.
DollarBody(s) ==
    IF Len(s) > 0 /\ s[Len(s)] = "\n" THEN {s, SubSeq(s, 1, Len(s) - 1)} ELSE {s}

\* ID_RE.match(s)
ID_RE(s) ==
    \E b \in DollarBody(s) :
        /\ Len(b) >= 1
        /\ Len(b) <= MaxLen
        /\ b[1] \in IdStart
        /\ \A i \in 2..Len(b) : b[i] \in IdChar

\* NM_RE.match(s)
NM_RE(s) ==
    \E b \in DollarBody(s) :
        /\ Len(b) >= 1
        /\ Len(b) <= MaxLen
        /\ b[1] \in NameStart
        /\ \A i \in 2..Len(b) : b[i] \in NameChar

-----------------------------------------------------------------------------
(* The sanitizers.                                                         *)

sanitize_name(s0) ==
    LET s1 == Strip(IF s0 = <<>> THEN Str_Name ELSE s0, Space)
        s2 == SubEach(s1, {"/", "\\", "(", ")"}, " ")
        s3 == SubRunsNot(s2, NameChar, " ")
        s4 == Strip(SubRuns(s3, Space, " "), Space)
        s5 == IF s4 = <<>> THEN Str_Name ELSE s4
        s6 == Take(s5, MaxLen)
        s7 == LStrip(s6, Space)
        s8 == IF s7 = <<>> \/ s7[1] \notin NameStart THEN <<"_">> \o s7 ELSE s7
        s9 == IF NM_RE(s6) THEN s6 ELSE Take(s8, MaxLen)
        f  == Take(SubRuns(SubRunsNot(s9, IdChar, "_"), {"_"}, " "), MaxLen)
    IN  IF NM_RE(s9) THEN s9
        ELSE IF f = <<>> THEN Str_Name ELSE f

sanitize_identifier(s0) ==
    LET s1 == Strip(IF s0 = <<>> THEN Str_id ELSE s0, Space)
        s2 == SubRunsNot(s1, IdChar, "_")
        s3 == IF s2 = <<>> \/ s2[1] \notin IdStart THEN <<"_">> \o s2 ELSE s2
        s4 == Take(Strip(SubRuns(s3, {"_"}, "_"), {"_"}), MaxLen)
        s5 == <<"_">> \o SubEachNot(s4, IdChar, "_")
        s6 == Take(Strip(SubRuns(s5, {"_"}, "_"), {"_"}), MaxLen)
    IN  IF ID_RE(s4) THEN s4
        ELSE IF s6 = <<>> THEN Str_id ELSE s6

-----------------------------------------------------------------------------
(* SpecSan: the sanitizers on drawn inputs.                                *)

\* A letter, a digit, the underscore, a name-only character, white space, one
\* of the four characters sanitize_name names, and other punctuation.
SanAlphabet == {"a", "1", "_", "-", " ", "/", "#"}

RECURSIVE StringsUpTo(_, _)
StringsUpTo(alphabet, n) ==
    IF n = 0 THEN {<<>>}
    ELSE LET shorter == StringsUpTo(alphabet, n - 1)
         IN  shorter \cup {Append(s, c) : s \in shorter, c \in alphabet}

Filler(n) == [i \in 1..n |-> "a"]

\* Short strings, and strings about MaxLen long: a filler of letters between a
\* drawn head and a drawn tail, so that the cut at MaxLen falls on every kind
\* of character.
SanInputs ==
    StringsUpTo(SanAlphabet, MaxShort)
    \cup {h \o Filler(n) \o t :
            h \in StringsUpTo(SanAlphabet, 1),
            n \in (MaxLen - 1 - Slack)..(MaxLen + Slack),
            t \in StringsUpTo(SanAlphabet, 2)}

\* The sanitizer harness at rest, in the other specifications.
IdleSan ==
    /\ san_in = <<>>
    /\ san_id = <<>>
    /\ san_nm = <<>>
    /\ san_done = {}

\* The tag harness at rest.
IdleTags ==
    /\ tg_app = <<>>
    /\ tg_comp = <<>>
    /\ tg_registry = <<>>
    /\ tg_first = FALSE
    /\ tg_pairs = <<>>
    /\ tg_map = <<>>
    /\ tg_type = <<>>
    /\ tg_matched = <<>>
    /\ tg_done = {}

\* main() not run.
IdleMain ==
    /\ d_group_by = "none"
    /\ d_first_match = FALSE
    /\ d_reg_file = [kind |-> "no_path", items |-> <<>>]
    /\ d_nfiles = 0
    /\ pc = "idle"
    /\ exit_code = -1
    /\ m_registry = <<>>
    /\ idx = 0
    /\ parsed = <<>>
    /\ m_root = <<>>
    /\ app_i = 0
    /\ m_app_name = <<>>
    /\ m_app_tags = <<>>
    /\ comps = <<>>
    /\ m_stages = <<>>
    /\ counts = [svc_count |-> 0, file_apps |-> 0, file_svcs |-> 0,
                 grand_apps |-> 0, grand_svcs |-> 0]
    /\ fs = <<>>
    /\ writers = <<>>
    /\ app_writes = <<>>

InitSan ==
    /\ IdleTags
    /\ IdleMain
    /\ san_in \in SanInputs
    /\ san_id = <<>>
    /\ san_nm = <<>>
    /\ san_done = {}

CallSanitizeIdentifier ==
    /\ "id" \notin san_done
    /\ san_id' = sanitize_identifier(san_in)
    /\ san_done' = san_done \cup {"id"}
    /\ UNCHANGED <<san_in, san_nm, tagVars, mainVars>>

CallSanitizeName ==
    /\ "name" \notin san_done
    /\ san_nm' = sanitize_name(san_in)
    /\ san_done' = san_done \cup {"name"}
    /\ UNCHANGED <<san_in, san_id, tagVars, mainVars>>

NextSan == CallSanitizeIdentifier \/ CallSanitizeName

SpecSan == InitSan /\ [][NextSan]_vars


-----------------------------------------------------------------------------
(* The properties of the sanitizers.                                       *)

\* The identifier grammar ^[A-Za-z_][A-Za-z0-9_]{0,127}$ as a grammar: no
\* trailing newline is let through.
IdGrammar(s) ==
    /\ Len(s) \in 1..MaxLen
    /\ s[1] \in IdStart
    /\ \A i \in 2..Len(s) : s[i] \in IdChar

\* The name grammar ^[A-Za-z_0-9\-.][-0-9A-Za-z_\s.]{0,127}$.
NameGrammar(s) ==
    /\ Len(s) \in 1..MaxLen
    /\ s[1] \in NameStart
    /\ \A i \in 2..Len(s) : s[i] \in NameChar

\* C1: for every input string the result of sanitize_identifier matches the
\* identifier grammar: non-empty, starting with a letter or an underscore,
\* made of letters, digits and underscores, at most 128 long.
C1_IdentifierMatchesGrammar ==
    "id" \in san_done => IdGrammar(san_id)

\* C2: for every input string the result of sanitize_name matches the name
\* grammar, is at most 128 long and holds none of / \ ( ).
C2_NameMatchesGrammar ==
    "name" \in san_done =>
        /\ NameGrammar(san_nm)
        /\ Len(san_nm) <= MaxLen
        /\ \A i \in 1..Len(san_nm) : san_nm[i] \notin {"/", "\\", "(", ")"}

\* An over-long input holding a forbidden character has been sanitized, and
\* the cut at MaxLen took effect.
C2_Witness ==
    /\ "name" \in san_done
    /\ Len(san_in) > MaxLen
    /\ \E i \in 1..Len(san_in) : san_in[i] = "/"
    /\ Len(san_nm) = MaxLen

\* No leading, trailing or repeated underscore.
NoSpareUnderscore(s) ==
    /\ Len(s) >= 1
    /\ s[1] # "_"
    /\ s[Len(s)] # "_"
    /\ \A i \in 1..(Len(s) - 1) : ~(s[i] = "_" /\ s[i+1] = "_")

\* C3 as stated: sanitize_identifier returns every string that matches the
\* identifier grammar unchanged, leading, trailing and repeated underscores
\* included.
C3_IdempotentOnValid ==
    ("id" \in san_done /\ IdGrammar(san_in)) => san_id = san_in

\* C3 as amended: sanitize_identifier returns unchanged every string that
\* matches the identifier grammar and has no leading, trailing or repeated
\* underscore.
C3_UnchangedWithoutSpareUnderscores ==
    ("id" \in san_done /\ IdGrammar(san_in) /\ NoSpareUnderscore(san_in))
        => san_id = san_in

\* A valid identifier with an inner underscore came back unchanged.
C3_Witness ==
    /\ "id" \in san_done
    /\ IdGrammar(san_in)
    /\ NoSpareUnderscore(san_in)
    /\ \E i \in 1..Len(san_in) : san_in[i] = "_"
    /\ san_id = san_in


-----------------------------------------------------------------------------
(* Text helpers of the tag parser, the classifier and the matcher.         *)

\* Python's None, where a field is absent.  str(None) is "None".
None == <<"<None>">>

Str_None == <<"N","o","n","e">>

\* None, or the empty dict, where a mapping is expected.
NoDict == [none |-> TRUE]

\* "x or y" takes y when x is None or empty.
Falsy(x) == x = None \/ x = <<>>

Uppers ==
    <<"A","B","C","D","E","F","G","H","I","J","K","L","M",
      "N","O","P","Q","R","S","T","U","V","W","X","Y","Z">>

Lowers ==
    <<"a","b","c","d","e","f","g","h","i","j","k","l","m",
      "n","o","p","q","r","s","t","u","v","w","x","y","z">>

LowerChar(c) ==
    IF \E i \in 1..26 : Uppers[i] = c
    THEN Lowers[CHOOSE i \in 1..26 : Uppers[i] = c]
    ELSE c

\* s.lower()
Lower(s) == [i \in 1..Len(s) |-> LowerChar(s[i])]

\* sep.join(parts)
RECURSIVE Join(_, _)
Join(parts, sep) ==
    IF parts = <<>> THEN <<>>
    ELSE IF Len(parts) = 1 THEN parts[1]
    ELSE parts[1] \o sep \o Join(Tail(parts), sep)

\* key in hay
Contains(hay, key) ==
    \E i \in 0..(Len(hay) - Len(key)) : SubSeq(hay, i + 1, i + Len(key)) = key

-----------------------------------------------------------------------------
(* Tags.  A tag object is the record [name |-> text] of the export.        *)

Str_true == <<"t","r","u","e">>

\* raw = t.get("name"); str(raw)
TagRaw(t) == IF t.name = None THEN Str_None ELSE t.name

parse_tag(name) ==
    LET n == Strip(name, Space)
        colons == {i \in 1..Len(n) : n[i] = ":"}
        c == CHOOSE i \in colons : \A j \in colons : i <= j
    IN  IF colons # {}
        THEN <<Strip(SubSeq(n, 1, c - 1), Space), Strip(SubSeq(n, c + 1, Len(n)), Space)>>
        ELSE <<n, Str_true>>

\* The mapping key -> value; a later tag overwrites an earlier one of the same
\* key, a tag with an empty key is left out.
collect_tags_map(tag_objs) ==
    LET kv(i) == parse_tag(TagRaw(tag_objs[i]))
        keys  == {kv(i)[1] : i \in 1..Len(tag_objs)} \ {<<>>}
        last(k) == CHOOSE i \in 1..Len(tag_objs) :
                       /\ kv(i)[1] = k
                       /\ \A j \in 1..Len(tag_objs) : kv(j)[1] = k => j <= i
    IN  [k \in keys |-> kv(last(k))[2]]

collect_tags_flat(tag_objs) == [i \in 1..Len(tag_objs) |-> TagRaw(tag_objs[i])]

\* {**a, **b}
MergeMaps(a, b) ==
    [k \in DOMAIN a \cup DOMAIN b |-> IF k \in DOMAIN b THEN b[k] ELSE a[k]]

-----------------------------------------------------------------------------
(* The deployment-type classifier.                                         *)

CustomDeployment == <<"C","u","s","t","o","m","D","e","p","l","o","y","m","e","n","t">>
WinRm == <<"W","i","n","R","m">>
TAS == <<"T","A","S">>
Kubernetes == <<"K","u","b","e","r","n","e","t","e","s">>

VALID_DEPLOYMENT_TYPES ==
    {<<"C","u","s","t","o","m","D","e","p","l","o","y","m","e","n","t">>,
     <<"W","i","n","R","m">>,
     <<"T","A","S">>,
     <<"K","u","b","e","r","n","e","t","e","s">>,
     <<"S","S","H">>,
     <<"N","a","t","i","v","e","H","e","l","m">>,
     <<"E","C","S">>,
     <<"A","z","u","r","e","W","e","b","A","p","p">>,
     <<"S","e","r","v","e","r","l","e","s","s","A","w","s","L","a","m","b","d","a">>,
     <<"G","o","o","g","l","e","C","l","o","u","d","R","u","n">>}

\* The dictionary in its insertion order, which is the order of the search.
SYNONYMS ==
    <<[key |-> <<"p","c","f">>, val |-> <<"T","A","S">>],
       [key |-> <<"t","a","n","z","u">>, val |-> <<"T","A","S">>],
       [key |-> <<"c","l","o","u","d"," ","f","o","u","n","d","r","y">>, val |-> <<"T","A","S">>],
       [key |-> <<"t","a","s">>, val |-> <<"T","A","S">>],
       [key |-> <<"w","i","n","d","o","w","s">>, val |-> <<"W","i","n","R","m">>],
       [key |-> <<"w","i","n","r","m">>, val |-> <<"W","i","n","R","m">>],
       [key |-> <<"i","i","s">>, val |-> <<"W","i","n","R","m">>],
       [key |-> <<"m","s","i","_","d","e","p","l","o","y">>, val |-> <<"W","i","n","R","m">>],
       [key |-> <<"w","i","n","d","o","w","s"," ","s","e","r","v","i","c","e">>, val |-> <<"W","i","n","R","m">>],
       [key |-> <<"k","8","s">>, val |-> <<"K","u","b","e","r","n","e","t","e","s">>],
       [key |-> <<"k","u","b","e","r","n","e","t","e","s">>, val |-> <<"K","u","b","e","r","n","e","t","e","s">>]>>

infer_deployment_type(app_tags, comp_tags) ==
    LET hay  == Lower(Join(app_tags \o comp_tags, <<" ">>))
        hits == {i \in 1..Len(SYNONYMS) : Contains(hay, SYNONYMS[i].key)}
    IN  IF hits = {} THEN CustomDeployment
        ELSE SYNONYMS[CHOOSE i \in hits : \A j \in hits : i <= j].val

normalize_deployment_type(dt) ==
    IF Falsy(dt) THEN CustomDeployment
    ELSE IF dt \notin VALID_DEPLOYMENT_TYPES
    THEN LET hits == {i \in 1..Len(SYNONYMS) : SYNONYMS[i].key = Lower(dt)}
         IN  IF hits = {} THEN CustomDeployment
             ELSE SYNONYMS[CHOOSE i \in hits : \A j \in hits : i <= j].val
    ELSE dt

-----------------------------------------------------------------------------
(* The template registry matcher.  A rule is what load_registry returns:   *)
(*   [name, templateRef, versionLabel,                                     *)
(*    match |-> [tags_any, tags_all, any_regex, all_regex], inputs].       *)
(* A pattern is [text, valid]: a literal text (re.search then looks for it *)
(* in the haystack, ignoring case), or a malformed pattern, on which       *)
(* re.search raises re.error.                                              *)

_regex_any(pats, hay) ==
    \E i \in 1..Len(pats) :
        pats[i].valid /\ Contains(Lower(hay), Lower(pats[i].text))

_regex_all(pats, hay) ==
    \A i \in 1..Len(pats) :
        pats[i].valid /\ Contains(Lower(hay), Lower(pats[i].text))

\* inputs is NoDict, or [variables |-> <<[k, v], ...>>] in dictionary order;
\* the result is NoDict for Python's None.
_build_template_inputs(inputs) ==
    IF inputs = NoDict THEN NoDict
    ELSE IF inputs.variables = <<>> THEN NoDict
    ELSE [variables |->
            [i \in 1..Len(inputs.variables) |->
                [name  |-> inputs.variables[i].k,
                 type  |-> "String",
                 value |-> inputs.variables[i].v]]]

\* tags_set = set([t.lower() for t in app_tags + comp_tags])
tags_set_of(app_tags, comp_tags) ==
    LET all == app_tags \o comp_tags
    IN  {Lower(all[i]) : i \in 1..Len(all)}

\* The body of the loop up to "if ok:".
rule_ok(rule, tags_set, hay) ==
    LET m  == rule.match
        ta == [i \in 1..Len(m.tags_any) |-> Lower(m.tags_any[i])]
        tl == [i \in 1..Len(m.tags_all) |-> Lower(m.tags_all[i])]
    IN  /\ ta # <<>> => \E i \in 1..Len(ta) : ta[i] \in tags_set
        /\ tl # <<>> => \A i \in 1..Len(tl) : tl[i] \in tags_set
        /\ m.any_regex # <<>> => _regex_any(m.any_regex, hay)
        /\ m.all_regex # <<>> => _regex_all(m.all_regex, hay)

stepgroup_spec(rule) ==
    LET base == [name |-> rule.name, templateRef |-> rule.templateRef,
                 versionLabel |-> rule.versionLabel]
        ti   == _build_template_inputs(rule.inputs)
    IN  IF ti # NoDict THEN [templateInputs |-> ti] @@ base ELSE base

RECURSIVE match_from(_, _, _, _, _)
match_from(i, registry, tags_set, hay, first_match) ==
    IF i > Len(registry) THEN <<>>
    ELSE IF rule_ok(registry[i], tags_set, hay)
    THEN IF first_match THEN <<stepgroup_spec(registry[i])>>
         ELSE <<stepgroup_spec(registry[i])>>
              \o match_from(i + 1, registry, tags_set, hay, first_match)
    ELSE match_from(i + 1, registry, tags_set, hay, first_match)

match_stepgroups_for_component(app_name, comp_name, app_tags, comp_tags, registry, first_match) ==
    match_from(1, registry,
               tags_set_of(app_tags, comp_tags),
               Join(<<app_name, comp_name>> \o app_tags \o comp_tags, <<" ">>),
               first_match)


-----------------------------------------------------------------------------
(* SpecTags: the tag parser, the classifier and the matcher on drawn tags. *)

\* The tag objects the inputs are drawn from; the last one has no name.
TagPool ==
    {[name |-> <<"I","I","S">>],
     [name |-> <<"p","c","f">>],
     [name |-> <<"j","a","v","a",":","8">>],
     [name |-> <<"u","s","e","s",":","j","a","v","a">>],
     [name |-> <<"j","a","v","a","s","c","r","i","p","t">>],
     [name |-> <<"J","a","v","a">>],
     [name |-> <<"e","n","v",":">>],
     [name |-> <<"e","n","v",":","p","r","o","d">>],
     [name |-> <<"s","m","o","k","e">>],
     [name |-> <<":","x">>],
     [name |-> None]}

NoMatch == [tags_any |-> <<>>, tags_all |-> <<>>, any_regex |-> <<>>, all_regex |-> <<>>]

Malformed == [text |-> <<"[">>, valid |-> FALSE]

Rule_java ==
    [name |-> <<"J","a","v","a"," ","b","u","i","l","d">>, templateRef |-> <<"j","a","v","a","_","b","u","i","l","d">>, versionLabel |-> <<"v","1">>,
     match |-> [NoMatch EXCEPT !.tags_any = <<<<"j","a","v","a">>>>],
     inputs |-> NoDict]

Rule_all ==
    [name |-> <<"S","m","o","k","e">>, templateRef |-> <<"s","m","o","k","e">>, versionLabel |-> <<"v","2">>,
     match |-> [NoMatch EXCEPT !.tags_all = <<<<"s","m","o","k","e">>, <<"e","n","v",":","p","r","o","d">>>>],
     inputs |-> [variables |-> <<[k |-> <<"n","a","m","e">>, v |-> <<"a","/","b">>]>>]]

Rule_regex ==
    [name |-> <<"S","c","r","i","p","t">>, templateRef |-> <<"s","c","r","i","p","t">>, versionLabel |-> <<"v","1">>,
     match |-> [NoMatch EXCEPT !.any_regex = <<Malformed, [text |-> <<"S","C","R","I","P","T">>, valid |-> TRUE]>>,
                               !.all_regex = <<[text |-> <<"j","a","v","a">>, valid |-> TRUE],
                                               [text |-> <<"a","p","i">>, valid |-> TRUE]>>],
     inputs |-> [variables |-> <<>>]]

Rule_badregex ==
    [name |-> <<"B","a","d">>, templateRef |-> <<"b","a","d">>, versionLabel |-> <<"v","1">>,
     match |-> [NoMatch EXCEPT !.all_regex = <<Malformed>>],
     inputs |-> NoDict]

Rule_always ==
    [name |-> <<"A","l","w","a","y","s">>, templateRef |-> <<"a","l","w","a","y","s">>, versionLabel |-> <<"v","1">>,
     match |-> NoMatch,
     inputs |-> NoDict]

TagRegistries ==
    {<<>>, <<Rule_java>>, <<Rule_java, Rule_all>>, <<Rule_regex, Rule_java>>,
     <<Rule_badregex, Rule_all, Rule_always>>}

RECURSIVE SeqsUpTo(_, _)
SeqsUpTo(S, n) ==
    IF n = 0 THEN {<<>>}
    ELSE LET shorter == SeqsUpTo(S, n - 1)
         IN  shorter \cup {Append(s, x) : s \in shorter, x \in S}

Str_Orders == <<"O","r","d","e","r","s">>
Str_api    == <<"a","p","i">>

InitTags ==
    /\ IdleSan
    /\ IdleMain
    /\ tg_app \in SeqsUpTo(TagPool, 1)
    /\ tg_comp \in SeqsUpTo(TagPool, MaxTags)
    /\ tg_registry \in TagRegistries
    /\ tg_first \in BOOLEAN
    /\ tg_pairs = <<>>
    /\ tg_map = <<>>
    /\ tg_type = <<>>
    /\ tg_matched = <<>>
    /\ tg_done = {}

\* Lines 478-479 and 484: the component's tags, parsed and merged over the
\* application's.
CallCollectTags ==
    /\ "tags" \notin tg_done
    /\ tg_pairs' = [i \in 1..Len(tg_comp) |-> parse_tag(TagRaw(tg_comp[i]))]
    /\ tg_map' = MergeMaps(collect_tags_map(tg_app), collect_tags_map(tg_comp))
    /\ tg_done' = tg_done \cup {"tags"}
    /\ UNCHANGED <<tg_app, tg_comp, tg_registry, tg_first, tg_type, tg_matched>>
    /\ UNCHANGED <<sanVars, mainVars>>

\* Line 490.
CallInferDeploymentType ==
    /\ "infer" \notin tg_done
    /\ tg_type' = infer_deployment_type(collect_tags_flat(tg_app),
                                        collect_tags_flat(tg_comp))
    /\ tg_done' = tg_done \cup {"infer"}
    /\ UNCHANGED <<tg_app, tg_comp, tg_registry, tg_first, tg_pairs, tg_map, tg_matched>>
    /\ UNCHANGED <<sanVars, mainVars>>

\* Line 489.
CallMatchStepgroups ==
    /\ "match" \notin tg_done
    /\ tg_matched' = match_stepgroups_for_component(
                         Str_Orders, Str_api,
                         collect_tags_flat(tg_app), collect_tags_flat(tg_comp),
                         tg_registry, tg_first)
    /\ tg_done' = tg_done \cup {"match"}
    /\ UNCHANGED <<tg_app, tg_comp, tg_registry, tg_first, tg_pairs, tg_map, tg_type>>
    /\ UNCHANGED <<sanVars, mainVars>>

NextTags == CallCollectTags \/ CallInferDeploymentType \/ CallMatchStepgroups

SpecTags == InitTags /\ [][NextTags]_vars

-----------------------------------------------------------------------------
(* The properties of the classifier, the matcher and the tag parser.       *)

Str_iis == <<"i","i","s">>

\* C5: whenever some application or component tag contains "iis" in any letter
\* case, infer_deployment_type returns WinRm, whatever the other tags are.
C5_IisClassifiesAsWinRm ==
    LET all == collect_tags_flat(tg_app) \o collect_tags_flat(tg_comp)
    IN  ("infer" \in tg_done
         /\ \E i \in 1..Len(all) : Contains(Lower(all[i]), Str_iis))
            => tg_type = WinRm

\* The rule has a tags_any clause and no other.
OnlyTagsAny(rule) ==
    /\ rule.match.tags_any # <<>>
    /\ rule.match.tags_all = <<>>
    /\ rule.match.any_regex = <<>>
    /\ rule.match.all_regex = <<>>

\* The keys and the values of the combined tags, in lower case.
KeysAndValues(tags) ==
    {Lower(parse_tag(tags[i])[1]) : i \in 1..Len(tags)}
    \cup {Lower(parse_tag(tags[i])[2]) : i \in 1..Len(tags)}

\* C6: a rule whose only clause is tags_any matches iff one of its tags
\* equals, ignoring case, a key or a value of the combined application and
\* component tags: tags_any ["java"] matches "java:8" and "uses:java" and
\* does not match "javascript".
C6_TagsAnyMatchesKeyOrValue ==
    LET all == collect_tags_flat(tg_app) \o collect_tags_flat(tg_comp)
    IN  ("match" \in tg_done /\ Len(tg_registry) = 1 /\ OnlyTagsAny(tg_registry[1]))
            => ((tg_matched # <<>>)
                <=> \E i \in 1..Len(tg_registry[1].match.tags_any) :
                        Lower(tg_registry[1].match.tags_any[i]) \in KeysAndValues(all))

\* The text before the first ":" (all of it when there is none), and after it.
BeforeColon(s) ==
    LET colons == {i \in 1..Len(s) : s[i] = ":"}
    IN  IF colons = {} THEN s
        ELSE SubSeq(s, 1, (CHOOSE i \in colons : \A j \in colons : i <= j) - 1)

AfterColon(s) ==
    LET colons == {i \in 1..Len(s) : s[i] = ":"}
    IN  IF colons = {} THEN <<>>
        ELSE SubSeq(s, (CHOOSE i \in colons : \A j \in colons : i <= j) + 1, Len(s))

\* C9: the parsed key is the trimmed text before the first ":", the parsed
\* value is the trimmed text after it, or "true" when that is empty; no parsed
\* value is empty.
C9_ParsedValueNeverEmpty ==
    "tags" \in tg_done =>
        \A i \in 1..Len(tg_comp) :
            LET raw == TagRaw(tg_comp[i])
                v   == Strip(AfterColon(raw), Space)
            IN  /\ tg_pairs[i][1] = Strip(BeforeColon(raw), Space)
                /\ tg_pairs[i][2] = (IF v = <<>> THEN Str_true ELSE v)
                /\ tg_pairs[i][2] # <<>>


-----------------------------------------------------------------------------
(* The template registry file and load_registry.                           *)
(* A registry file is [kind, items].  The kinds are the shapes the code    *)
(* tells apart:                                                            *)
(*   no_path          --registry is empty                                  *)
(*   missing          no file at the path                                  *)
(*   unparseable      yaml.safe_load raises yaml.YAMLError                 *)
(*   empty            the document is empty or null: "or {}" takes over    *)
(*   not_mapping      a non-empty list or a scalar: data.get raises        *)
(*   templates_absent a mapping without templates, or with a null one      *)
(*   templates_number templates is a number: the for loop raises TypeError *)
(*   templates_text   templates is a text: its characters are no dicts     *)
(*   templates        templates is the list items                          *)
(* An item is [isdict, name, templateRef, versionLabel, match, inputs],    *)
(* None (NoDict for match and inputs) where the key is absent.             *)

Str_StepGroup == <<"S","t","e","p","G","r","o","u","p">>
Str_v1 == <<"v","1">>

RegistryRaises == {"unparseable", "not_mapping", "templates_number"}

registry_item(it) ==
    [name |-> IF ~Falsy(it.name) THEN it.name
              ELSE IF ~Falsy(it.templateRef) THEN it.templateRef
              ELSE Str_StepGroup,
     templateRef  |-> it.templateRef,
     versionLabel |-> IF it.versionLabel = None THEN Str_v1 ELSE it.versionLabel,
     match  |-> IF it.match = NoDict THEN NoMatch ELSE it.match,
     inputs |-> it.inputs]

RECURSIVE registry_items(_)
registry_items(items) ==
    IF items = <<>> THEN <<>>
    ELSE IF ~items[1].isdict THEN registry_items(Tail(items))
    ELSE <<registry_item(items[1])>> \o registry_items(Tail(items))

\* [raised, rules]: whether the call raised, and the list it returned.
load_registry(file) ==
    IF file.kind \in RegistryRaises THEN [raised |-> TRUE, rules |-> <<>>]
    ELSE IF file.kind = "templates"
    THEN [raised |-> FALSE, rules |-> registry_items(file.items)]
    ELSE [raised |-> FALSE, rules |-> <<>>]

-----------------------------------------------------------------------------
(* The document builders.                                                  *)

Str_input  == <<"<","+","i","n","p","u","t",">">>
Str_Deploy == <<"D","e","p","l","o","y">>

build_service_payload(name, identifier, tags_map) ==
    [service |->
        [name |-> sanitize_name(name),
         identifier |-> sanitize_identifier(identifier),
         tags |-> tags_map,
         serviceDefinition |-> [type |-> "Custom", spec |-> [variables |-> <<>>]]]]

stepgroup_block(sg) ==
    LET template == [templateRef |-> sg.templateRef, versionLabel |-> sg.versionLabel]
    IN  [stepGroup |->
            [name |-> sanitize_name(sg.name),
             identifier |-> sanitize_identifier(sg.name),
             template |-> IF "templateInputs" \in DOMAIN sg
                          THEN [templateInputs |-> sg.templateInputs] @@ template
                          ELSE template]]

deploy_step ==
    [step |->
        [name |-> Str_Deploy,
         identifier |-> Str_Deploy,
         type |-> "ShellScript",
         spec |-> [shell |-> "Bash", onDelegate |-> TRUE,
                   source |-> [type |-> "Inline",
                               spec |-> [script |-> "echo TODO: implement deployment"]]]]]

build_stage_for_component(svc_identifier, stage_name, deployment_type, matched_stepgroups) ==
    [stage |->
        [name |-> sanitize_name(stage_name),
         identifier |-> sanitize_identifier(stage_name),
         type |-> "Deployment",
         spec |->
            [deploymentType |-> normalize_deployment_type(deployment_type),
             service |-> [serviceRef |-> svc_identifier],
             environment |->
                [environmentRef |-> Str_input,
                 deployToAll |-> TRUE,
                 infrastructureDefinitions |-> <<[identifier |-> Str_input]>>],
             execution |->
                [steps |-> [i \in 1..Len(matched_stepgroups) |->
                               stepgroup_block(matched_stepgroups[i])]
                           \o <<deploy_step>>]],
         failureStrategies |->
            <<[onFailure |-> [errors |-> <<"AllErrors">>,
                              action |-> [type |-> "StageRollback"]]]>>]]

\* build_pipeline_payload with the stages in the reverse of the input order.
build_pipeline_payload_reversed(pipeline_name, pipeline_id, org, proj, stages, pipeline_tags) ==
    [pipeline |->
        [name |-> sanitize_name(pipeline_name),
         identifier |-> sanitize_identifier(pipeline_id),
         orgIdentifier |-> org,
         projectIdentifier |-> proj,
         tags |-> pipeline_tags,
         stages |-> [i \in 1..Len(stages) |-> stages[Len(stages) + 1 - i]]]]

build_pipeline_payload(pipeline_name, pipeline_id, org, proj, stages, pipeline_tags) ==
    [pipeline |->
        [name |-> sanitize_name(pipeline_name),
         identifier |-> sanitize_identifier(pipeline_id),
         orgIdentifier |-> org,
         projectIdentifier |-> proj,
         tags |-> pipeline_tags,
         stages |-> stages]]

-----------------------------------------------------------------------------
(* write_yaml: ensure_meta, then _walk_fix_ids_and_names, then the dump.   *)
(* The text of the file is modelled by the payload that is dumped.         *)

Str_identifier == <<"i","d","e","n","t","i","f","i","e","r">>
Str_name == <<"n","a","m","e">>

fix_identifier(v) == IF ID_RE(v) THEN v ELSE sanitize_identifier(v)

fix_name(v) == IF NM_RE(v) THEN v ELSE sanitize_name(v)

\* node.setdefault(...) twice, then the top-level name and identifier.
ensure_meta(node, org, proj) ==
    LET n == node @@ [orgIdentifier |-> org, projectIdentifier |-> proj]
    IN  [n EXCEPT !.name = sanitize_name(@), !.identifier = fix_identifier(@)]

\* The walk over a tags mapping: a tag whose key is "identifier" or "name" is
\* a key the walk rewrites like any other.
walk_tags(tags) ==
    [k \in DOMAIN tags |->
        IF k = Str_identifier THEN fix_identifier(tags[k])
        ELSE IF k = Str_name THEN fix_name(tags[k])
        ELSE tags[k]]

walk_template(t) ==
    IF "templateInputs" \in DOMAIN t
    THEN [t EXCEPT !.templateInputs.variables =
                      [i \in 1..Len(@) |-> [@[i] EXCEPT !.name = fix_name(@)]]]
    ELSE t

walk_step(b) ==
    IF "stepGroup" \in DOMAIN b
    THEN [stepGroup |-> [b.stepGroup EXCEPT !.name = fix_name(@),
                                            !.identifier = fix_identifier(@),
                                            !.template = walk_template(@)]]
    ELSE [step |-> [b.step EXCEPT !.name = fix_name(@), !.identifier = fix_identifier(@)]]

walk_stage(s) ==
    [stage |->
        [s.stage EXCEPT
            !.name = fix_name(@),
            !.identifier = fix_identifier(@),
            !.spec.environment.infrastructureDefinitions =
                [i \in 1..Len(@) |-> [@[i] EXCEPT !.identifier = fix_identifier(@)]],
            !.spec.execution.steps = [i \in 1..Len(@) |-> walk_step(@[i])]]]

\* _walk_fix_ids_and_names on the two kinds of payload main builds.
_walk_fix_ids_and_names(payload) ==
    IF "service" \in DOMAIN payload
    THEN [service |-> [payload.service EXCEPT !.name = fix_name(@),
                                              !.identifier = fix_identifier(@),
                                              !.tags = walk_tags(@)]]
    ELSE [pipeline |-> [payload.pipeline EXCEPT
                            !.name = fix_name(@),
                            !.identifier = fix_identifier(@),
                            !.tags = walk_tags(@),
                            !.stages = [i \in 1..Len(@) |-> walk_stage(@[i])]]]

\* The payload as write_yaml dumps it.
write_yaml(payload, org, proj) ==
    _walk_fix_ids_and_names(
        IF "service" \in DOMAIN payload
        THEN [service |-> ensure_meta(payload.service, org, proj)]
        ELSE [pipeline |-> ensure_meta(payload.pipeline, org, proj)])

-----------------------------------------------------------------------------
(* Output grouping.  A base root is the list of directories below --out.   *)

base_out_root_for(group_by, file_base, app_name) ==
    IF group_by = "none" THEN <<>>
    ELSE IF group_by = "file" THEN <<sanitize_identifier(file_base)>>
    ELSE IF group_by = "application" THEN <<sanitize_identifier(app_name)>>
    ELSE <<>>

\* os.path.join(services_dir, f"{svc_identifier}.yaml") and its pipeline twin.
service_path(root, svc_identifier) ==
    [root |-> root, dir |-> "services", file |-> svc_identifier]

pipeline_path(root, pipeline_id) ==
    [root |-> root, dir |-> "pipelines", file |-> sanitize_identifier(pipeline_id)]


-----------------------------------------------------------------------------
(* Spec: main().  The inputs of a run are drawn where main reads them: the *)
(* arguments and the registry file at the start, each input file when the  *)
(* loop reaches it, each application and component when its loop does.     *)

Org  == "my_org"
Proj == "my_project"

Str_Application == <<"A","p","p","l","i","c","a","t","i","o","n">>
Str_Component   == <<"C","o","m","p","o","n","e","n","t">>
Str_deploy_name == <<" ","d","e","p","l","o","y">>
Str_deploy_id   == <<"_","d","e","p","l","o","y">>

GroupBys == {"file", "application", "none"}

\* An item of the registry file that sets every key, one that sets only
\* templateRef, and one that is no mapping.
Item_java ==
    [isdict |-> TRUE, name |-> <<"J","a","v","a"," ","b","u","i","l","d">>, templateRef |-> <<"j","a","v","a","_","b","u","i","l","d">>,
     versionLabel |-> <<"v","2">>,
     match |-> [NoMatch EXCEPT !.tags_any = <<<<"j","a","v","a">>>>],
     inputs |-> [variables |-> <<[k |-> <<"j","d","k">>, v |-> <<"1","7">>]>>]]

Item_bare ==
    [isdict |-> TRUE, name |-> None, templateRef |-> <<"n","o","t","i","f","y">>,
     versionLabel |-> None, match |-> NoDict, inputs |-> NoDict]

Item_text == [isdict |-> FALSE]

\* What is left of the registry file for main once it has been read.
Closed == [kind |-> "closed", items |-> <<>>]

RegistryFiles ==
    {[kind |-> k, items |-> <<>>] :
        k \in {"no_path", "missing", "unparseable", "empty", "not_mapping",
               "templates_absent", "templates_number", "templates_text"}}
    \cup {[kind |-> "templates", items |-> <<Item_text, Item_java, Item_bare>>]}

\* The base names of the input files (two files of different directories may
\* share one).
FileBases == {<<"u","c","d">>, <<"u","c","d","-","2">>}

\* Applications as the export gives them: application.name, application.tags.
AppPool ==
    {[name |-> <<"O","r","d","e","r","s">>, tags |-> <<[name |-> <<"e","n","v",":","p","r","o","d">>]>>],
     [name |-> Filler(MaxLen - 1),
      tags |-> <<[name |-> <<"I","I","S">>], [name |-> <<"p","c","f">>]>>]}

\* Components: name, tags.
CompPool ==
    {[name |-> <<"a","p","i">>, tags |-> <<>>],
     [name |-> <<"a","p","i"," ","v","2">>, tags |-> <<[name |-> <<"J","a","v","a">>]>>],
     [name |-> <<"a","p","i","-","v","2">>, tags |-> <<>>]}

InitMain ==
    /\ IdleSan
    /\ IdleTags
    /\ d_group_by \in GroupBys
    /\ d_first_match \in BOOLEAN
    /\ d_reg_file \in RegistryFiles
    /\ d_nfiles \in 0..MaxFiles
    /\ pc = "start"
    /\ exit_code = -1
    /\ m_registry = <<>>
    /\ idx = 0
    /\ parsed = <<>>
    /\ m_root = <<>>
    /\ app_i = 0
    /\ m_app_name = <<>>
    /\ m_app_tags = <<>>
    /\ comps = <<>>
    /\ m_stages = <<>>
    /\ counts = [svc_count |-> 0, file_apps |-> 0, file_svcs |-> 0,
                 grand_apps |-> 0, grand_svcs |-> 0]
    /\ fs = <<>>
    /\ writers = <<>>
    /\ app_writes = <<>>

\* Lines 441-446: no input file is exit code 2; a registry that cannot be
\* loaded ends the run with the exception (exit code 1).
Start ==
    /\ pc = "start"
    /\ IF d_nfiles = 0
       THEN /\ pc' = "exit"
            /\ exit_code' = 2
            /\ UNCHANGED <<m_registry, d_reg_file>>
       ELSE LET r == load_registry(d_reg_file)
            IN  IF r.raised
                THEN /\ pc' = "crashed"
                     /\ exit_code' = 1
                     /\ UNCHANGED <<m_registry, d_reg_file>>
                ELSE /\ pc' = "files"
                     /\ m_registry' = r.rules
                     /\ d_reg_file' = Closed
                     /\ UNCHANGED exit_code
    /\ UNCHANGED <<d_group_by, d_first_match, d_nfiles, idx, parsed,
                   m_root, app_i, m_app_name, m_app_tags, comps, m_stages, counts, fs,
                   writers, app_writes>>
    /\ UNCHANGED <<sanVars, tagVars>>

\* Lines 448-454: load_ucd_json raises; the file is skipped.
SkipBadFile ==
    /\ pc = "files"
    /\ idx < d_nfiles
    /\ idx' = idx + 1
    /\ parsed' = Append(parsed, FALSE)
    /\ UNCHANGED <<d_group_by, d_first_match, d_reg_file, d_nfiles, pc, exit_code,
                   m_registry, m_root, app_i, m_app_name, m_app_tags, comps, m_stages,
                   counts, fs, writers, app_writes>>
    /\ UNCHANGED <<sanVars, tagVars>>

\* Lines 448-459: the file loads.
OpenFile ==
    /\ pc = "files"
    /\ idx < d_nfiles
    /\ \E base \in FileBases :
          m_root' = IF d_group_by = "file"
                  THEN base_out_root_for(d_group_by, base, <<>>)
                  ELSE m_root
    /\ parsed' = Append(parsed, TRUE)
    /\ counts' = [counts EXCEPT !.file_apps = 0, !.file_svcs = 0]
    /\ app_i' = 0
    /\ pc' = "apps"
    /\ UNCHANGED <<d_group_by, d_first_match, d_reg_file, d_nfiles, exit_code,
                   m_registry, idx, m_app_name, m_app_tags, comps, m_stages, fs,
                   writers, app_writes>>
    /\ UNCHANGED <<sanVars, tagVars>>

\* Lines 448-461: the file loads, but its document is no mapping (a list, a
\* text, a number or null): ucd.get raises AttributeError outside the try, and
\* the run ends with the exception (exit code 1).
FileNotMapping ==
    /\ pc = "files"
    /\ idx < d_nfiles
    /\ \E base \in FileBases :
          m_root' = IF d_group_by = "file"
                  THEN base_out_root_for(d_group_by, base, <<>>)
                  ELSE m_root
    /\ parsed' = Append(parsed, TRUE)
    /\ counts' = [counts EXCEPT !.file_apps = 0, !.file_svcs = 0]
    /\ pc' = "crashed"
    /\ exit_code' = 1
    /\ UNCHANGED <<d_group_by, d_first_match, d_reg_file, d_nfiles,
                   m_registry, idx, app_i, m_app_name, m_app_tags, comps, m_stages, fs,
                   writers, app_writes>>
    /\ UNCHANGED <<sanVars, tagVars>>

\* Lines 510-511: every file has been seen.
EndRun ==
    /\ pc = "files"
    /\ idx = d_nfiles
    /\ pc' = "done"
    /\ exit_code' = 0
    /\ UNCHANGED <<d_group_by, d_first_match, d_reg_file, d_nfiles, m_registry,
                   idx, parsed, m_root, app_i, m_app_name, m_app_tags, comps, m_stages,
                   counts, fs, writers, app_writes>>
    /\ UNCHANGED <<sanVars, tagVars>>

\* Lines 461-474: the next application of the file.
BeginApp ==
    /\ pc = "apps"
    /\ counts.grand_apps + counts.file_apps < MaxApps
    /\ \E a \in AppPool :
          LET name == IF Falsy(a.name) THEN Str_Application ELSE a.name
          IN  /\ m_app_name' = name
              /\ m_app_tags' = a.tags
              /\ m_root' = IF d_group_by \in {"application", "none"}
                         THEN base_out_root_for(d_group_by, <<>>, name)
                         ELSE m_root
    /\ comps' = <<>>
    /\ m_stages' = <<>>
    /\ counts' = [counts EXCEPT !.svc_count = 0]
    /\ app_writes' = <<>>
    /\ pc' = "comps"
    /\ UNCHANGED <<d_group_by, d_first_match, d_reg_file, d_nfiles, exit_code,
                   m_registry, idx, parsed, app_i, fs, writers>>
    /\ UNCHANGED <<sanVars, tagVars>>

\* Lines 476-495: the next component of the application: its service
\* document is written and its stage appended.
ProcessComponent ==
    /\ pc = "comps"
    /\ counts.grand_svcs + counts.file_svcs < MaxServices
    /\ \E c \in CompPool :
          LET comp_name      == IF Falsy(c.name) THEN Str_Component ELSE c.name
              app_tags_flat  == collect_tags_flat(m_app_tags)
              comp_tags_flat == collect_tags_flat(c.tags)
              tags_map       == MergeMaps(collect_tags_map(m_app_tags),
                                          collect_tags_map(c.tags))
              svc_identifier == sanitize_identifier(m_app_name \o <<"_">> \o comp_name)
              svc_yaml       == build_service_payload(comp_name, svc_identifier, tags_map)
              svc_path       == service_path(m_root, svc_identifier)
              doc            == write_yaml(svc_yaml, Org, Proj)
              matched        == match_stepgroups_for_component(
                                    m_app_name, comp_name, app_tags_flat,
                                    comp_tags_flat, m_registry, d_first_match)
              deployment_type == infer_deployment_type(app_tags_flat, comp_tags_flat)
              stage          == build_stage_for_component(
                                    svc_identifier, comp_name, deployment_type, matched)
          IN  /\ fs' = (svc_path :> doc) @@ fs
              /\ writers' = (svc_path :>
                                ((IF svc_path \in DOMAIN writers
                                  THEN writers[svc_path] ELSE {})
                                 \cup {<<m_app_name, comp_name>>})) @@ writers
              /\ app_writes' = Append(app_writes, [path |-> svc_path, doc |-> doc])
              /\ m_stages' = Append(m_stages, stage)
              /\ comps' = Append(comps, [name |-> comp_name, tags |-> c.tags])
    /\ counts' = [counts EXCEPT !.svc_count = @ + 1, !.file_svcs = @ + 1]
    /\ UNCHANGED <<d_group_by, d_first_match, d_reg_file, d_nfiles, pc, exit_code,
                   m_registry, idx, parsed, m_root, app_i, m_app_name, m_app_tags>>
    /\ UNCHANGED <<sanVars, tagVars>>

\* Lines 497-504: the components are done; the pipeline document is written.
EndApp ==
    /\ pc = "comps"
    /\ LET pipeline_name == m_app_name \o Str_deploy_name
           pipeline_id   == m_app_name \o Str_deploy_id
           pipeline_yaml == build_pipeline_payload(
                                pipeline_name, pipeline_id, Org, Proj, m_stages,
                                collect_tags_map(m_app_tags))
           pipe_path     == pipeline_path(m_root, pipeline_id)
           doc           == write_yaml(pipeline_yaml, Org, Proj)
       IN  /\ fs' = (pipe_path :> doc) @@ fs
           /\ app_writes' = Append(app_writes, [path |-> pipe_path, doc |-> doc])
    /\ counts' = [counts EXCEPT !.file_apps = @ + 1]
    /\ app_i' = app_i + 1
    /\ pc' = "apps"
    /\ UNCHANGED <<d_group_by, d_first_match, d_reg_file, d_nfiles, exit_code,
                   m_registry, idx, parsed, m_root, m_app_name, m_app_tags, comps,
                   m_stages, writers>>
    /\ UNCHANGED <<sanVars, tagVars>>

\* Lines 506-508: the applications of the file are done.
EndFile ==
    /\ pc = "apps"
    /\ counts' = [counts EXCEPT !.grand_apps = @ + counts.file_apps,
                                !.grand_svcs = @ + counts.file_svcs]
    /\ idx' = idx + 1
    /\ pc' = "files"
    /\ UNCHANGED <<d_group_by, d_first_match, d_reg_file, d_nfiles, exit_code,
                   m_registry, parsed, m_root, app_i, m_app_name, m_app_tags, comps,
                   m_stages, fs, writers, app_writes>>
    /\ UNCHANGED <<sanVars, tagVars>>

Next ==
    \/ Start
    \/ SkipBadFile
    \/ OpenFile
    \/ FileNotMapping
    \/ EndRun
    \/ BeginApp
    \/ ProcessComponent
    \/ EndApp
    \/ EndFile

Spec == InitMain /\ [][Next]_vars

\* main is one sequential loop: a step that can be taken is taken.
SpecLive == InitMain /\ [][Next]_vars /\ WF_vars(Next)


-----------------------------------------------------------------------------
(* The properties of main().                                               *)

\* C4: within one services directory, the documents of two different
\* (application name, component name) pairs never have the same service
\* identifier, so none is written over the other's file.
C4_ServiceIdentifiersUnique ==
    \A p \in DOMAIN writers : Cardinality(writers[p]) <= 1

IsPipelineWrite(w) == w.path.dir = "pipelines"

IsServiceWrite(w) == w.path.dir = "services"

\* C7: for every application of a parsed file main writes exactly one
\* pipeline document, whose identifier is sanitize_identifier(app_name +
\* "_deploy") and whose stages are one per component in the input order, and
\* exactly one service document per component, named by the sanitizer from
\* app_name + "_" + comp_name.
C7_OnePipelineOneServicePerComponent ==
    (pc = "apps" /\ app_writes # <<>>) =>
        LET pw == SelectSeq(app_writes, IsPipelineWrite)
            sw == SelectSeq(app_writes, IsServiceWrite)
            svc_id(i) == sanitize_identifier(m_app_name \o <<"_">> \o comps[i].name)
        IN  /\ Len(pw) = 1
            /\ pw[1].doc.pipeline.identifier =
                   sanitize_identifier(m_app_name \o Str_deploy_id)
            /\ Len(pw[1].doc.pipeline.stages) = Len(comps)
            /\ \A i \in 1..Len(comps) :
                  LET st == pw[1].doc.pipeline.stages[i].stage
                  IN  /\ st.name = sanitize_name(comps[i].name)
                      /\ st.spec.service.serviceRef = svc_id(i)
            /\ Len(sw) = Len(comps)
            /\ \A i \in 1..Len(comps) :
                  /\ sw[i].path.file = svc_id(i)
                  /\ sw[i].doc.service.identifier = sanitize_identifier(svc_id(i))
                  /\ sw[i].doc.service.name = sanitize_name(comps[i].name)

\* An application of two differently named components has been written out.
C7_Witness ==
    /\ pc = "apps"
    /\ Len(app_writes) = 3
    /\ Len(comps) = 2
    /\ comps[1].name # comps[2].name
    /\ m_app_name = <<"O","r","d","e","r","s">>

\* C8: in every pipeline document as written, the environmentRef and the
\* infrastructure-definition identifier of every stage are "<+input>".
C8_PlaceholdersKept ==
    \A p \in DOMAIN fs :
        p.dir = "pipelines" =>
            \A i \in 1..Len(fs[p].pipeline.stages) :
                LET env == fs[p].pipeline.stages[i].stage.spec.environment
                IN  /\ env.environmentRef = Str_input
                    /\ \A j \in 1..Len(env.infrastructureDefinitions) :
                          env.infrastructureDefinitions[j].identifier = Str_input

\* Every registry file but one that is a mapping with a templates list.
MissingOrInvalid ==
    {"no_path", "missing", "unparseable", "empty", "not_mapping",
     "templates_absent", "templates_number", "templates_text"}

\* C10: with a missing or an invalid registry file, load_registry returns the
\* empty list and main goes on to the input files.
C10_RegistryNeverFatal ==
    [][(pc = "start" /\ d_nfiles > 0 /\ d_reg_file.kind \in MissingOrInvalid)
          => (pc' = "files" /\ m_registry' = <<>>)]_vars

\* The step of main in which load_ucd_json was called on the next input file.
FileLoadStep == pc = "files" /\ Len(parsed') = Len(parsed) + 1

\* C11: a file whose load fails writes no document and the loop goes on to
\* the next file; every file that loads goes on to its applications; and once
\* main is in the file loop it reaches the grand-total summary with exit code
\* zero, having seen every file.
C11_FailureIsPerFile ==
    /\ [][FileLoadStep =>
             IF parsed'[Len(parsed')]
             THEN pc' = "apps"
             ELSE fs' = fs /\ pc' = "files" /\ idx' = idx + 1]_vars
    /\ (pc = "files") ~> (pc = "done" /\ exit_code = 0 /\ Len(parsed) = d_nfiles)

\* C12: for every component of an application that has been written out, the
\* serviceRef of its stage in the pipeline document, the identifier of its
\* service document and the base name of that document's file are one string.
C12_ServiceRefIsServiceIdentifier ==
    (pc = "apps" /\ app_writes # <<>>) =>
        LET pw == SelectSeq(app_writes, IsPipelineWrite)
            sw == SelectSeq(app_writes, IsServiceWrite)
        IN  \A i \in 1..Len(sw) :
                LET ref == pw[1].doc.pipeline.stages[i].stage.spec.service.serviceRef
                IN  /\ ref = sw[i].doc.service.identifier
                    /\ ref = sw[i].path.file

=============================================================================
